---- MODULE Spec2Model ----
(***************************************************************************)
(* A model of the training script (src/train.py) and of the segment-wise   *)
(* GRU forecaster's forward pass (src/models/SegRNN.py).                   *)
(*                                                                         *)
(* Spec    : one run of the script, checkpoint load, train(), plot, save.  *)
(* SpecFwd : SegRNN.forward on every configuration within the bounds,      *)
(*           tensors kept as a shape and a row-major list of symbolic      *)
(*           elements.                                                     *)
(*                                                                         *)
(* A loss or accuracy value is a fraction <<numerator, denominator>>, so   *)
(* that the division by len(data_loader) is exact.                         *)
(***************************************************************************)
EXTENDS Integers, Sequences, FiniteSets, TLC

\* ------------------------------------------------------------- bounds
MaxEpochs == 2
MaxBatches == 2

\* The per-batch loss and accuracy values the loss function and acc_fn may give.
LossVals == {6, 8}
AccVals == {1}

\* The entries of the model's state dict.
Keys == {"weight", "bias"}

\* train.py:150, the early-stopping threshold.
LossThreshold == 7

\* train.py:153, the period of the progress print.
PrintEvery == 10

VARIABLES
    pc,          \* the script's position
    file,        \* the checkpoint file at save_path
    params,      \* the model's parameters, per state-dict entry
    mode,        \* the module's training flag: "train" or "eval"
    grad,        \* the parameters' gradient buffers: "none", "zeroed", "computed"
    epochs,      \* train()'s argument
    nTrain,      \* len(train_dataloader)
    nTest,       \* len(test_dataloader)
    epoch,       \* the loop variable of train()
    batch,       \* the loop variable of train_step / test_step
    train_loss, train_acc, test_loss, test_acc,   \* the locals of the same names
    results,     \* train()'s results dictionary
    sched,       \* the metrics scheduler.step has been called with
    out,         \* what the script printed
    \* history, read by the properties only
    file0,       \* the checkpoint file when the process started
    saves,       \* how many times torch.save ran
    events,      \* the calls train() made, in order
    lossLog,     \* the per-batch losses of the running train_step / test_step
    accLog,      \* the per-batch accuracies of the same
    ops,         \* what was done for the current batch, in order
    fwd          \* SegRNN.forward's locals (SpecFwd)

vars == <<pc, file, params, mode, grad, epochs, nTrain, nTest, epoch, batch,
          train_loss, train_acc, test_loss, test_acc, results, sched, out,
          file0, saves, events, lossLog, accLog, ops, fwd>>

trainVars == <<pc, file, params, mode, grad, epochs, nTrain, nTest, epoch, batch,
               train_loss, train_acc, test_loss, test_acc, results, sched, out,
               file0, saves, events, lossLog, accLog, ops>>

\* ------------------------------------------------------------ values

RECURSIVE SumSeq(_)
SumSeq(s) == IF s = <<>> THEN 0 ELSE Head(s) + SumSeq(Tail(s))

Zero == <<0, 1>>

\* x += v
Accumulate(x, v) == <<x[1] + v * x[2], x[2]>>

\* A division by the index of the last batch instead of the number of batches.
AverageByLastIndex(x, n) == <<x[1], x[2] * (n - 1)>>

\* x /= n, for n # 0
Average(x, n) == <<x[1], x[2] * n>>

\* A comparison that also stops at the threshold itself.
BelowOrAtThreshold(x) == x[1] <= LossThreshold * x[2]

\* test_loss < 7
BelowThreshold(x) == x[1] < LossThreshold * x[2]

\* A parameter entry: where its value came from and how many optimizer steps
\* have changed it since.
RandomInit == [src |-> "init", steps |-> 0]
InitParams == [k \in Keys |-> RandomInit]

NoFile == [kind |-> "absent", shape_ok |-> [k \in Keys |-> FALSE],
           vals |-> [k \in Keys |-> RandomInit]]

\* A state dict on disk whose entries have, or have not, the shapes of the model's.
SavedDicts ==
    { [kind |-> "dict", shape_ok |-> m,
       vals |-> [k \in Keys |-> [src |-> "ckpt", steps |-> 0]]] :
      m \in [Keys -> BOOLEAN] }

\* A file torch.load cannot read: it raises a RuntimeError, or an exception of
\* another class.
Unreadable ==
    { [kind |-> kd, shape_ok |-> [k \in Keys |-> FALSE],
       vals |-> [k \in Keys |-> RandomInit]] :
      kd \in {"unreadable_runtime_error", "unreadable_other_error"} }

InitialFiles == {NoFile} \cup SavedDicts \cup Unreadable

\* model.state_dict()
StateDict(p) == [kind |-> "dict", shape_ok |-> [k \in Keys |-> TRUE], vals |-> p]

\* A load that copies nothing unless every entry matches.
LoadStateDictAllOrNothing(p, d) ==
    IF \A k \in Keys : d.shape_ok[k] THEN d.vals ELSE p

\* model.load_state_dict(d): every entry whose shape matches is copied into the
\* model; the entries that do not match are reported together, afterwards, by
\* one RuntimeError.
LoadStateDict(p, d) == [k \in Keys |-> IF d.shape_ok[k] THEN d.vals[k] ELSE p[k]]

LoadRaises(d) == \E k \in Keys : ~d.shape_ok[k]

\* optimizer.step()
OptimizerStep(p) == [k \in Keys |-> [p[k] EXCEPT !.steps = @ + 1]]

EmptyResults == [train_loss |-> <<>>, test_loss |-> <<>>,
                 train_acc |-> <<>>, test_acc |-> <<>>]

NoFwd == [fpc |-> "off"]

\* -------------------------------------------------------------- Init

Init ==
    /\ pc = "load"
    /\ file \in InitialFiles
    /\ file0 = file
    /\ params = InitParams
    /\ mode = "train"
    /\ grad = "none"
    /\ epochs \in 0..MaxEpochs
    /\ nTrain \in 0..MaxBatches
    /\ nTest \in 0..MaxBatches
    /\ epoch = 0
    /\ batch = 0
    /\ train_loss = Zero /\ train_acc = Zero
    /\ test_loss = Zero /\ test_acc = Zero
    /\ results = EmptyResults
    /\ sched = <<>>
    /\ out = <<>>
    /\ saves = 0
    /\ events = <<>>
    /\ lossLog = <<>> /\ accLog = <<>>
    /\ ops = <<>>
    /\ fwd = NoFwd

\* ------------------------------------------------- __main__, the load

Log(msg) == out' = Append(out, msg)
Event(e) == events' = Append(events, e)

\* train.py:190-195. Only a RuntimeError is caught; any other exception ends
\* the process.
LoadCheckpoint ==
    /\ pc = "load"
    /\ IF file.kind = "absent"
         THEN /\ pc' = "train_init"
              /\ UNCHANGED <<params, out>>
       ELSE IF file.kind = "unreadable_other_error"
         THEN /\ pc' = "crashed"
              /\ UNCHANGED <<params, out>>
       ELSE IF file.kind = "unreadable_runtime_error"
         THEN /\ pc' = "train_init"
              /\ Log("mismatch")
              /\ UNCHANGED params
       ELSE /\ params' = LoadStateDict(params, file)
            /\ pc' = "train_init"
            /\ Log(IF LoadRaises(file) THEN "mismatch" ELSE "loaded")
    /\ UNCHANGED <<file, mode, grad, epochs, nTrain, nTest, epoch, batch,
                   train_loss, train_acc, test_loss, test_acc, results, sched,
                   file0, saves, events, lossLog, accLog, ops, fwd>>

\* ------------------------------------------------------------ train()

\* train.py:125-130
TrainInit ==
    /\ pc = "train_init"
    /\ results' = EmptyResults
    /\ epoch' = 0
    /\ pc' = "loop"
    /\ UNCHANGED <<file, params, mode, grad, epochs, nTrain, nTest, batch,
                   train_loss, train_acc, test_loss, test_acc, sched, out,
                   file0, saves, events, lossLog, accLog, ops, fwd>>

\* train.py:132, `for epoch in progress_bar`, and the return of line 163 when
\* the range is exhausted.
LoopHead ==
    /\ pc = "loop"
    /\ pc' = IF epoch < epochs THEN "ts_begin" ELSE "returned"
    /\ UNCHANGED <<file, params, mode, grad, epochs, nTrain, nTest, epoch, batch,
                   train_loss, train_acc, test_loss, test_acc, results, sched, out,
                   file0, saves, events, lossLog, accLog, ops, fwd>>

\* ------------------------------------------------------- train_step()

\* train.py:30-33
TrainStepBegin ==
    /\ pc = "ts_begin"
    /\ train_loss' = Zero /\ train_acc' = Zero
    /\ mode' = "train"
    /\ batch' = 0
    /\ lossLog' = <<>> /\ accLog' = <<>>
    /\ ops' = <<>>
    /\ Event(<<"train_step", epoch>>)
    /\ pc' = "ts_loop"
    /\ UNCHANGED <<file, params, grad, epochs, nTrain, nTest, epoch,
                   test_loss, test_acc, results, sched, out, file0, saves, fwd>>

\* train.py:35-37, the next batch of the loader, or the end of the loop
TrainNextBatch ==
    /\ pc = "ts_loop"
    /\ pc' = IF batch < nTrain THEN "ts_forward" ELSE "ts_avg"
    /\ ops' = <<>>
    /\ UNCHANGED <<file, params, mode, grad, epochs, nTrain, nTest, epoch, batch,
                   train_loss, train_acc, test_loss, test_acc, results, sched, out,
                   file0, saves, events, lossLog, accLog, fwd>>

\* train.py:40
TrainForward ==
    /\ pc = "ts_forward"
    /\ ops' = Append(ops, "forward")
    /\ pc' = "ts_loss"
    /\ UNCHANGED <<file, params, mode, grad, epochs, nTrain, nTest, epoch, batch,
                   train_loss, train_acc, test_loss, test_acc, results, sched, out,
                   file0, saves, events, lossLog, accLog, fwd>>

\* train.py:43-45
TrainLoss ==
    /\ pc = "ts_loss"
    /\ \E l \in LossVals, a \in AccVals :
         /\ train_loss' = Accumulate(train_loss, l)
         /\ train_acc' = Accumulate(train_acc, a)
         /\ lossLog' = Append(lossLog, l)
         /\ accLog' = Append(accLog, a)
    /\ ops' = Append(ops, "loss")
    /\ pc' = "ts_zero"
    /\ UNCHANGED <<file, params, mode, grad, epochs, nTrain, nTest, epoch, batch,
                   test_loss, test_acc, results, sched, out,
                   file0, saves, events, fwd>>

\* train.py:48
ZeroGrad ==
    /\ pc = "ts_zero"
    /\ grad' = "zeroed"
    /\ ops' = Append(ops, "zero_grad")
    /\ pc' = "ts_backward"
    /\ UNCHANGED <<file, params, mode, epochs, nTrain, nTest, epoch, batch,
                   train_loss, train_acc, test_loss, test_acc, results, sched, out,
                   file0, saves, events, lossLog, accLog, fwd>>

\* train.py:51
Backward ==
    /\ pc = "ts_backward"
    /\ grad' = "computed"
    /\ ops' = Append(ops, "backward")
    /\ pc' = "ts_step"
    /\ UNCHANGED <<file, params, mode, epochs, nTrain, nTest, epoch, batch,
                   train_loss, train_acc, test_loss, test_acc, results, sched, out,
                   file0, saves, events, lossLog, accLog, fwd>>

\* train.py:54, and the loop's step to the next batch
OptStep ==
    /\ pc = "ts_step"
    /\ params' = OptimizerStep(params)
    /\ ops' = Append(ops, "step")
    /\ batch' = batch + 1
    /\ pc' = "ts_loop"
    /\ UNCHANGED <<file, mode, grad, epochs, nTrain, nTest, epoch,
                   train_loss, train_acc, test_loss, test_acc, results, sched, out,
                   file0, saves, events, lossLog, accLog, fwd>>

\* train.py:57-60. With an empty loader the first division raises
\* ZeroDivisionError, which nothing catches.
TrainAverage ==
    /\ pc = "ts_avg"
    /\ IF nTrain = 0
         THEN /\ pc' = "crashed"
              /\ UNCHANGED <<train_loss, train_acc>>
         ELSE /\ train_loss' = Average(train_loss, nTrain)
              /\ train_acc' = Average(train_acc, nTrain)
              /\ pc' = "te_begin"
    /\ UNCHANGED <<file, params, mode, grad, epochs, nTrain, nTest, epoch, batch,
                   test_loss, test_acc, results, sched, out,
                   file0, saves, events, lossLog, accLog, ops, fwd>>

\* -------------------------------------------------------- test_step()

\* train.py:79-82
TestStepBegin ==
    /\ pc = "te_begin"
    /\ test_loss' = Zero /\ test_acc' = Zero
    /\ mode' = "eval"
    /\ batch' = 0
    /\ lossLog' = <<>> /\ accLog' = <<>>
    /\ ops' = <<>>
    /\ Event(<<"test_step", epoch>>)
    /\ pc' = "te_loop"
    /\ UNCHANGED <<file, params, grad, epochs, nTrain, nTest, epoch,
                   train_loss, train_acc, results, sched, out, file0, saves, fwd>>

\* train.py:83-84
TestNextBatch ==
    /\ pc = "te_loop"
    /\ pc' = IF batch < nTest THEN "te_forward" ELSE "te_avg"
    /\ ops' = <<>>
    /\ UNCHANGED <<file, params, mode, grad, epochs, nTrain, nTest, epoch, batch,
                   train_loss, train_acc, test_loss, test_acc, results, sched, out,
                   file0, saves, events, lossLog, accLog, fwd>>

\* train.py:87
TestForward ==
    /\ pc = "te_forward"
    /\ ops' = Append(ops, "forward")
    /\ pc' = "te_loss"
    /\ UNCHANGED <<file, params, mode, grad, epochs, nTrain, nTest, epoch, batch,
                   train_loss, train_acc, test_loss, test_acc, results, sched, out,
                   file0, saves, events, lossLog, accLog, fwd>>

\* A test_step that also steps the optimizer, as train_step does.
TestLossWithOptimizer ==
    /\ pc = "te_loss"
    /\ \E l \in LossVals, a \in AccVals :
         /\ test_loss' = Accumulate(test_loss, l)
         /\ test_acc' = Accumulate(test_acc, a)
         /\ lossLog' = Append(lossLog, l)
         /\ accLog' = Append(accLog, a)
    /\ params' = OptimizerStep(params)
    /\ ops' = Append(ops, "loss")
    /\ batch' = batch + 1
    /\ pc' = "te_loop"
    /\ UNCHANGED <<file, mode, grad, epochs, nTrain, nTest, epoch,
                   train_loss, train_acc, results, sched, out,
                   file0, saves, events, fwd>>

\* train.py:90-92, and the loop's step to the next batch
TestLoss ==
    /\ pc = "te_loss"
    /\ \E l \in LossVals, a \in AccVals :
         /\ test_loss' = Accumulate(test_loss, l)
         /\ test_acc' = Accumulate(test_acc, a)
         /\ lossLog' = Append(lossLog, l)
         /\ accLog' = Append(accLog, a)
    /\ ops' = Append(ops, "loss")
    /\ batch' = batch + 1
    /\ pc' = "te_loop"
    /\ UNCHANGED <<file, params, mode, grad, epochs, nTrain, nTest, epoch,
                   train_loss, train_acc, results, sched, out,
                   file0, saves, events, fwd>>

\* train.py:95-98
TestAverage ==
    /\ pc = "te_avg"
    /\ IF nTest = 0
         THEN /\ pc' = "crashed"
              /\ UNCHANGED <<test_loss, test_acc, events>>
         ELSE /\ test_loss' = Average(test_loss, nTest)
              /\ test_acc' = Average(test_acc, nTest)
              /\ Event(<<"test_return", epoch, Average(test_loss, nTest)>>)
              /\ pc' = "sched"
    /\ UNCHANGED <<file, params, mode, grad, epochs, nTrain, nTest, epoch, batch,
                   train_loss, train_acc, results, sched, out,
                   file0, saves, lossLog, accLog, ops, fwd>>

\* ------------------------------------------- the rest of train()'s loop

\* A scheduler stepped with the training loss.
SchedulerStepOnTrainLoss ==
    /\ pc = "sched"
    /\ sched' = Append(sched, train_loss)
    /\ Event(<<"scheduler_step", epoch, train_loss>>)
    /\ pc' = "check"
    /\ UNCHANGED <<file, params, mode, grad, epochs, nTrain, nTest, epoch, batch,
                   train_loss, train_acc, test_loss, test_acc, results, out,
                   file0, saves, lossLog, accLog, ops, fwd>>

\* train.py:148
SchedulerStep ==
    /\ pc = "sched"
    /\ sched' = Append(sched, test_loss)
    /\ Event(<<"scheduler_step", epoch, test_loss>>)
    /\ pc' = "check"
    /\ UNCHANGED <<file, params, mode, grad, epochs, nTrain, nTest, epoch, batch,
                   train_loss, train_acc, test_loss, test_acc, results, out,
                   file0, saves, lossLog, accLog, ops, fwd>>

\* train.py:150-151, the break leaves the loop for the return of line 163
EarlyStopCheck ==
    /\ pc = "check"
    /\ pc' = IF BelowThreshold(test_loss) THEN "returned" ELSE "update"
    /\ Event(<<"stop_check", epoch>>)
    /\ UNCHANGED <<file, params, mode, grad, epochs, nTrain, nTest, epoch, batch,
                   train_loss, train_acc, test_loss, test_acc, results, sched, out,
                   file0, saves, lossLog, accLog, ops, fwd>>

\* An update that forgets one of the four sequences.
AppendResultsNoTestAcc(r, tl, tel, ta, tea) ==
    [train_loss |-> Append(r.train_loss, tl),
     test_loss |-> Append(r.test_loss, tel),
     train_acc |-> Append(r.train_acc, ta),
     test_acc |-> r.test_acc]

\* results[name].append(value), once for each of the four names
AppendResults(r, tl, tel, ta, tea) ==
    [train_loss |-> Append(r.train_loss, tl),
     test_loss |-> Append(r.test_loss, tel),
     train_acc |-> Append(r.train_acc, ta),
     test_acc |-> Append(r.test_acc, tea)]

\* An update that also writes the checkpoint, every epoch.
UpdateResultsAndSave ==
    /\ pc = "update"
    /\ out' = IF epoch % PrintEvery = 0 THEN Append(out, "progress") ELSE out
    /\ results' = AppendResults(results, train_loss, test_loss, train_acc, test_acc)
    /\ epoch' = epoch + 1
    /\ file' = StateDict(params)
    /\ saves' = saves + 1
    /\ pc' = "loop"
    /\ UNCHANGED <<params, mode, grad, epochs, nTrain, nTest, batch,
                   train_loss, train_acc, test_loss, test_acc, sched,
                   file0, events, lossLog, accLog, ops, fwd>>

\* train.py:153-161, and the loop's step to the next epoch
UpdateResults ==
    /\ pc = "update"
    /\ out' = IF epoch % PrintEvery = 0 THEN Append(out, "progress") ELSE out
    /\ results' = AppendResults(results, train_loss, test_loss, train_acc, test_acc)
    /\ epoch' = epoch + 1
    /\ pc' = "loop"
    /\ UNCHANGED <<file, params, mode, grad, epochs, nTrain, nTest, batch,
                   train_loss, train_acc, test_loss, test_acc, sched,
                   file0, saves, events, lossLog, accLog, ops, fwd>>

\* ------------------------------------------ __main__, after train()

\* train.py:207. plot_loss_curves draws the curves; it touches none of the
\* state here, and may raise.
PlotResults ==
    /\ pc = "returned"
    /\ pc' \in {"save", "crashed"}
    /\ UNCHANGED <<file, params, mode, grad, epochs, nTrain, nTest, epoch, batch,
                   train_loss, train_acc, test_loss, test_acc, results, sched, out,
                   file0, saves, events, lossLog, accLog, ops, fwd>>

\* train.py:210-212
SaveCheckpoint ==
    /\ pc = "save"
    /\ file' = StateDict(params)
    /\ saves' = saves + 1
    /\ Log("saved")
    /\ pc' = "done"
    /\ UNCHANGED <<params, mode, grad, epochs, nTrain, nTest, epoch, batch,
                   train_loss, train_acc, test_loss, test_acc, results, sched,
                   file0, events, lossLog, accLog, ops, fwd>>

Next ==
    \/ LoadCheckpoint
    \/ TrainInit
    \/ LoopHead
    \/ TrainStepBegin
    \/ TrainNextBatch
    \/ TrainForward
    \/ TrainLoss
    \/ ZeroGrad
    \/ Backward
    \/ OptStep
    \/ TrainAverage
    \/ TestStepBegin
    \/ TestNextBatch
    \/ TestForward
    \/ TestLoss
    \/ TestAverage
    \/ SchedulerStep
    \/ EarlyStopCheck
    \/ UpdateResults
    \/ PlotResults
    \/ SaveCheckpoint

Spec == Init /\ [][Next]_vars

\* =================================================== SegRNN.forward
\* A tensor is its shape and its elements in row-major order. An element is a
\* symbolic term that names what it was computed from, so that two elements
\* are equal exactly when the same computation on the same inputs made them.

MaxBatch == 2
MaxEncIn == 2
MaxSeqLen == 4
MaxPredLen == 4
MaxSegLen == 2
MaxDModel == 2

Configs ==
    [batch : 1..MaxBatch, enc_in : 1..MaxEncIn, seq_len : 1..MaxSeqLen,
     pred_len : 1..MaxPredLen, seg_len : 1..MaxSegLen, d_model : 1..MaxDModel]

\* What a failed operation leaves: the exception it raised.
Raised == [ok |-> FALSE, shape |-> <<>>, data |-> <<>>]

Unset == [ok |-> FALSE, shape |-> <<0>>, data |-> <<>>]

\* The element [i, j, k] of a tensor of three dimensions, indices from 0.
At3(t, i, j, k) == t.data[(i * t.shape[2] + j) * t.shape[3] + k + 1]

\* The tensor of shape [s1, s2, s3] whose element [i, j, k] is F(i, j, k).
Build3(s1, s2, s3, F(_, _, _)) ==
    [ok |-> TRUE, shape |-> <<s1, s2, s3>>,
     data |-> [q \in 1..(s1 * s2 * s3) |->
                 F((q - 1) \div (s2 * s3), ((q - 1) \div s3) % s2, (q - 1) % s3)]]

\* t[i, j, :]
Row(t, i, j) == [k \in 1..t.shape[3] |-> At3(t, i, j, k - 1)]

\* The input x of shape [batch, seq_len, enc_in].
Input(c) == Build3(c.batch, c.seq_len, c.enc_in, LAMBDA i, j, k : <<"x", i, j, k>>)

\* t[:, -1:, :]
LastStep(t) ==
    Build3(t.shape[1], 1, t.shape[3], LAMBDA i, j, k : At3(t, i, t.shape[2] - 1, k))

\* a op b with broadcasting: two sizes go together when they are equal or one
\* of them is 1.
Broadcast(name, a, b) ==
    IF ~a.ok \/ ~b.ok THEN Raised
    ELSE IF \E n \in 1..3 : a.shape[n] # b.shape[n] /\ a.shape[n] # 1 /\ b.shape[n] # 1
      THEN Raised
    ELSE LET sz(n) == IF a.shape[n] = 1 THEN b.shape[n] ELSE a.shape[n]
             ix(t, n, v) == IF t.shape[n] = 1 THEN 0 ELSE v
         IN Build3(sz(1), sz(2), sz(3),
                   LAMBDA i, j, k :
                     <<name, At3(a, ix(a, 1, i), ix(a, 2, j), ix(a, 3, k)),
                             At3(b, ix(b, 1, i), ix(b, 2, j), ix(b, 3, k))>>)

\* t.permute(0, 2, 1)
Permute021(t) ==
    IF ~t.ok THEN Raised
    ELSE Build3(t.shape[1], t.shape[3], t.shape[2], LAMBDA i, j, k : At3(t, i, k, j))

\* t.view(shape) and t.reshape(shape), with at most one size given as -1: the
\* elements keep their row-major order; the -1 is the size that makes the
\* element counts agree, and there must be exactly one such size.
View(t, shape) ==
    IF ~t.ok THEN Raised
    ELSE LET numel == Len(t.data)
             free == {n \in 1..3 : shape[n] = -1}
             size(n) == IF n \in free THEN 1 ELSE shape[n]
             known == size(1) * size(2) * size(3)
         IN IF free = {}
              THEN IF known = numel
                     THEN [ok |-> TRUE, shape |-> shape, data |-> t.data]
                     ELSE Raised
            ELSE IF Cardinality(free) > 1 \/ known = 0 THEN Raised
            ELSE IF numel % known # 0 THEN Raised
            ELSE [ok |-> TRUE,
                  shape |-> [n \in 1..3 |-> IF n \in free THEN numel \div known ELSE shape[n]],
                  data |-> t.data]

\* t.repeat(r1, r2, r3): the tensor tiled r1, r2, r3 times along its dimensions
Repeat(t, r1, r2, r3) ==
    IF ~t.ok THEN Raised
    ELSE Build3(t.shape[1] * r1, t.shape[2] * r2, t.shape[3] * r3,
                LAMBDA i, j, k :
                  At3(t, i % t.shape[1], j % t.shape[2], k % t.shape[3]))

\* torch.cat([a, b], dim=-1)
CatLast(a, b) ==
    IF ~a.ok \/ ~b.ok THEN Raised
    ELSE IF a.shape[1] # b.shape[1] \/ a.shape[2] # b.shape[2] THEN Raised
    ELSE Build3(a.shape[1], a.shape[2], a.shape[3] + b.shape[3],
                LAMBDA i, j, k :
                  IF k < a.shape[3] THEN At3(a, i, j, k) ELSE At3(b, i, j, k - a.shape[3]))

\* nn.Linear(in_features, out_features) on the last dimension (and what
\* follows it elementwise, ReLU or nothing): output feature o of a row is a
\* function of the whole input row.
Linear(name, t, in_features, out_features) ==
    IF ~t.ok THEN Raised
    ELSE IF t.shape[3] # in_features THEN Raised
    ELSE Build3(t.shape[1], t.shape[2], out_features,
                LAMBDA i, j, o : <<name, o, Row(t, i, j)>>)

\* nn.GRU(d, d, batch_first=True)(t, h0)'s final hidden state: for each row r
\* of the batch, a function of the row's whole input sequence and of the
\* row's initial hidden state (<<>> when h0 is not given). t is
\* [rows, steps, d], h0 and the result are [1, rows, d].
GRU(t, h0, given, d) ==
    IF ~t.ok \/ (given /\ ~h0.ok) THEN Raised
    ELSE IF t.shape[3] # d THEN Raised
    ELSE IF given /\ h0.shape # <<1, t.shape[1], d>> THEN Raised
    ELSE Build3(1, t.shape[1], d,
                LAMBDA i, r, k :
                  <<"gru", k, [st \in 1..t.shape[2] |-> Row(t, r, st - 1)],
                    IF given THEN Row(h0, 0, r) ELSE <<>> >>)

\* SegRNN.py:16-17
SegNum(len, seg_len) == len \div seg_len

\* SegRNN.py:26, unsqueezed as in line 53
PosEmb(c) ==
    Build3(1, SegNum(c.pred_len, c.seg_len), c.d_model \div 2,
           LAMBDA i, j, k : <<"pos_emb", j, k>>)

\* SegRNN.py:27, unsqueezed as in line 54
ChannelEmb(c) ==
    Build3(c.enc_in, 1, c.d_model \div 2, LAMBDA i, j, k : <<"channel_emb", i, k>>)

\* SegRNN.py:39-40
Normalize(t) == Permute021(Broadcast("sub", t, LastStep(t)))

\* SegRNN.py:43
Embed(t, c) ==
    Linear("embed", View(t, <<-1, SegNum(c.seq_len, c.seg_len), c.seg_len>>),
           c.seg_len, c.d_model)

\* SegRNN.py:52-55
DecoderInput(c) ==
    Repeat(View(CatLast(Repeat(PosEmb(c), c.enc_in, 1, 1),
                        Repeat(ChannelEmb(c), 1, SegNum(c.pred_len, c.seg_len), 1)),
                <<-1, 1, c.d_model>>),
           c.batch, 1, 1)

\* A hidden state tiled along the batch dimension.
DecoderH0Tiled(hn, c) == Repeat(hn, 1, SegNum(c.pred_len, c.seg_len), 1)

\* SegRNN.py:60, the second argument
DecoderH0(hn, c) ==
    View(Repeat(hn, 1, 1, SegNum(c.pred_len, c.seg_len)), <<1, -1, c.d_model>>)

\* SegRNN.py:63
Predict(hy, c) ==
    View(Linear("predict", hy, c.d_model, c.seg_len), <<-1, c.enc_in, c.pred_len>>)

\* A sum taken without the permute.
DenormNoPermute(y, seq_last) == Broadcast("add", y, seq_last)

\* SegRNN.py:69
Denorm(y, seq_last) == Broadcast("add", Permute021(y), seq_last)

FwdStart(c) ==
    [fpc |-> "normalize", cfg |-> c, x |-> Input(c), seq_last |-> Unset,
     hn |-> Unset, pos_emb |-> Unset, h0 |-> Unset, hy |-> Unset, y |-> Unset]

InitFwd ==
    /\ fwd \in {FwdStart(c) : c \in Configs}
    /\ pc = "model"
    /\ file = NoFile
    /\ file0 = NoFile
    /\ params = InitParams
    /\ mode = "train"
    /\ grad = "none"
    /\ epochs = 0 /\ nTrain = 0 /\ nTest = 0 /\ epoch = 0 /\ batch = 0
    /\ train_loss = Zero /\ train_acc = Zero
    /\ test_loss = Zero /\ test_acc = Zero
    /\ results = EmptyResults
    /\ sched = <<>>
    /\ out = <<>>
    /\ saves = 0
    /\ events = <<>>
    /\ lossLog = <<>> /\ accLog = <<>>
    /\ ops = <<>>

\* The step that computed t: on to `next`, or out with the exception.
After(t, next) == IF t.ok THEN next ELSE "error"

\* SegRNN.py:36-40
FwdNormalize ==
    /\ fwd.fpc = "normalize"
    /\ LET t == Normalize(fwd.x)
       IN fwd' = [fwd EXCEPT !.seq_last = LastStep(fwd.x), !.x = t,
                             !.fpc = After(t, "embed")]
    /\ UNCHANGED trainVars

\* SegRNN.py:43
FwdEmbed ==
    /\ fwd.fpc = "embed"
    /\ LET t == Embed(fwd.x, fwd.cfg)
       IN fwd' = [fwd EXCEPT !.x = t, !.fpc = After(t, "encode")]
    /\ UNCHANGED trainVars

\* SegRNN.py:46
FwdEncode ==
    /\ fwd.fpc = "encode"
    /\ LET t == GRU(fwd.x, Unset, FALSE, fwd.cfg.d_model)
       IN fwd' = [fwd EXCEPT !.hn = t, !.fpc = After(t, "pos_emb")]
    /\ UNCHANGED trainVars

\* SegRNN.py:52-55
FwdDecoderInput ==
    /\ fwd.fpc = "pos_emb"
    /\ LET t == DecoderInput(fwd.cfg)
       IN fwd' = [fwd EXCEPT !.pos_emb = t, !.fpc = After(t, "decode")]
    /\ UNCHANGED trainVars

\* SegRNN.py:60
FwdDecode ==
    /\ fwd.fpc = "decode"
    /\ LET h == DecoderH0(fwd.hn, fwd.cfg)
           t == GRU(fwd.pos_emb, h, TRUE, fwd.cfg.d_model)
       IN fwd' = [fwd EXCEPT !.h0 = h, !.hy = t, !.fpc = After(t, "predict")]
    /\ UNCHANGED trainVars

\* SegRNN.py:63
FwdPredict ==
    /\ fwd.fpc = "predict"
    /\ LET t == Predict(fwd.hy, fwd.cfg)
       IN fwd' = [fwd EXCEPT !.y = t, !.fpc = After(t, "denorm")]
    /\ UNCHANGED trainVars

\* SegRNN.py:69-71
FwdDenorm ==
    /\ fwd.fpc = "denorm"
    /\ LET t == Denorm(fwd.y, fwd.seq_last)
       IN fwd' = [fwd EXCEPT !.y = t, !.fpc = After(t, "done")]
    /\ UNCHANGED trainVars

NextFwd ==
    \/ FwdNormalize
    \/ FwdEmbed
    \/ FwdEncode
    \/ FwdDecoderInput
    \/ FwdDecode
    \/ FwdPredict
    \/ FwdDenorm

SpecFwd == InitFwd /\ [][NextFwd]_vars

\* ================================================= properties, train.py

EventsOf(kind) == SelectSeq(events, LAMBDA e : e[1] = kind)

\* The epochs for which train_step and test_step were both executed.
EpochsRun == Len(EventsOf("test_return"))

\* The test loss test_step returned in the i-th epoch run.
TestLossOf(i) == EventsOf("test_return")[i][3]

Below7(v) == v[1] < 7 * v[2]

TrainReturned == pc \in {"returned", "save", "done"}

ResultNames == {"train_loss", "test_loss", "train_acc", "test_acc"}

\* C1: when train() returns, each of the four result sequences holds exactly
\* one value for every epoch that was run, in epoch order, also when the loop
\* stopped early.
C1_OneValuePerEpochRun ==
    TrainReturned =>
        /\ \A nm \in ResultNames : Len(results[nm]) = EpochsRun
        /\ \A i \in 1..EpochsRun :
             i <= Len(results.test_loss) /\ results.test_loss[i] = TestLossOf(i)

\* C2: the loop ends in the first epoch whose test loss is below 7, nothing of
\* a later epoch is executed, and without such an epoch exactly `epochs`
\* epochs are run.
C2_EarlyStop ==
    /\ \A i \in 1..EpochsRun :
         Below7(TestLossOf(i)) =>
            /\ i = EpochsRun
            /\ \A j \in 1..Len(events) : events[j][2] <= i - 1
            /\ (events[Len(events)][1] = "stop_check" => pc \in {"returned", "save", "done", "crashed"})
    /\ TrainReturned =>
         \/ EpochsRun >= 1 /\ Below7(TestLossOf(EpochsRun))
         \/ EpochsRun = epochs

C2_Witness ==
    /\ pc = "returned"
    /\ epochs = 2
    /\ EpochsRun = 1
    /\ Below7(TestLossOf(1))

C2_WitnessExhausted ==
    /\ pc = "returned"
    /\ epochs = 2
    /\ EpochsRun = 2
    /\ ~Below7(TestLossOf(2))

\* C3, as stated: a load that fails on a mismatch logs the mismatch message
\* and leaves the parameters as they were before the load, randomly
\* initialized; any other failure during loading ends the process.
C3_FailedLoadLeavesParams ==
    /\ (pc = "train_init" /\ file0.kind = "dict" /\ \E k \in Keys : ~file0.shape_ok[k]) =>
          out = <<"mismatch">> /\ params = InitParams
    /\ file0.kind \in {"unreadable_runtime_error", "unreadable_other_error"} =>
          pc \in {"load", "crashed"}

\* C3, amended: a load that raises a RuntimeError logs the mismatch message
\* and training goes on with the parameters as the failed load left them, the
\* entries of the saved state that match already copied in and only the others
\* randomly initialized; an exception of any other class ends the process at
\* once, and a process that has ended on a failure does nothing more.
C3_FailedLoadKeepsWhatItCopied ==
    /\ (pc # "load" /\ file0.kind = "dict" /\ \E k \in Keys : ~file0.shape_ok[k]) =>
          /\ out # <<>> /\ out[1] = "mismatch"
          /\ pc = "train_init" =>
               \A k \in Keys :
                 params[k] = IF file0.shape_ok[k] THEN file0.vals[k] ELSE RandomInit
    /\ (pc # "load" /\ file0.kind = "unreadable_runtime_error") =>
          /\ out # <<>> /\ out[1] = "mismatch"
          /\ pc = "train_init" => params = InitParams
    /\ file0.kind = "unreadable_other_error" =>
          pc \in {"load", "crashed"} /\ out = <<>> /\ events = <<>>
    /\ pc = "crashed" => ~ENABLED Next

C3_Witness ==
    /\ pc = "train_init"
    /\ out = <<"mismatch">>
    /\ params # InitParams

\* train() has returned, by the break or by running out of epochs.
TrainCompleted ==
    \/ Len(results.train_loss) = epochs
    \/ /\ events # <<>>
       /\ events[Len(events)][1] = "stop_check"
       /\ Below7(TestLossOf(EpochsRun))

\* C4: the checkpoint file is written exactly once per run, only after the
\* startup read and after train() has returned; a process that an uncaught
\* failure ended before that leaves the file as it found it.
C4_SavedOnceAtTheEnd ==
    /\ saves <= 1
    /\ saves = 1 <=> pc = "done"
    /\ saves = 1 =>
         /\ TrainCompleted
         /\ file = [kind |-> "dict", shape_ok |-> [k \in Keys |-> TRUE], vals |-> params]
         /\ file0.kind = "dict" => out[1] \in {"loaded", "mismatch"}
    /\ saves = 0 => file = file0
    /\ pc = "crashed" => saves = 0 /\ file = file0

C4_Witness ==
    /\ pc = "done"
    /\ saves = 1
    /\ file # file0
    /\ EpochsRun = 2

\* The optimizer steps taken in this run.
StepsTaken == params["weight"].steps

TrainStepCalls == Len(EventsOf("train_step"))

InTrainStep == pc \in {"ts_loop", "ts_forward", "ts_loss", "ts_zero", "ts_backward",
                       "ts_step", "ts_avg"}

\* C6: once training has begun the parameters change only in the optimizer
\* step of train_step, which follows the batch's forward pass, loss, zero_grad
\* and backward in that order and happens once for every training batch;
\* test_step and the scheduler step leave them as they are.
C6_OnlyTheOptimizerStep ==
    /\ [][(params' # params /\ pc # "load") =>
            /\ pc = "ts_step"
            /\ mode = "train"
            /\ ops = <<"forward", "loss", "zero_grad", "backward">>
            /\ \A k \in Keys : params'[k].steps = params[k].steps + 1]_vars
    /\ [](InTrainStep => StepsTaken = (TrainStepCalls - 1) * nTrain + batch)
    /\ [](~InTrainStep => StepsTaken = TrainStepCalls * nTrain)

C6_Witness ==
    /\ pc = "check"
    /\ nTrain = 2
    /\ nTest = 2
    /\ StepsTaken = 4

EpochPattern == <<"train_step", "test_step", "test_return", "scheduler_step", "stop_check">>

\* C7: every epoch runs train_step, test_step, one scheduler.step with that
\* epoch's test loss, and the early-stop check, in that order; the scheduler
\* is stepped once for every epoch executed, the one that stops early too.
C7_EpochOrder ==
    /\ \A p \in 1..Len(events) :
         /\ events[p][1] = EpochPattern[((p - 1) % 5) + 1]
         /\ events[p][2] = (p - 1) \div 5
         /\ events[p][1] = "scheduler_step" => events[p][3] = events[p - 1][3]
    /\ Len(sched) = Len(EventsOf("scheduler_step"))
    /\ Len(sched) <= EpochsRun /\ EpochsRun <= Len(sched) + 1
    /\ \A i \in 1..Len(sched) : sched[i] = TestLossOf(i)
    /\ pc \in {"check", "update", "loop", "returned", "save", "done"} => Len(sched) = EpochsRun

C7_Witness ==
    /\ pc = "returned"
    /\ EpochsRun = 2
    /\ Below7(TestLossOf(2))
    /\ Len(sched) = 2
    /\ sched[1] # sched[2]

IsPrefix(s, t) == Len(s) <= Len(t) /\ SubSeq(t, 1, Len(s)) = s

InTrain == pc \in {"train_init", "loop", "ts_begin", "te_begin", "te_loop", "te_forward",
                   "te_loss", "te_avg", "sched", "check", "update"} \/ InTrainStep

\* C8: the four result sequences always have one length, at most `epochs`,
\* and only grow by appending; train() makes at most `epochs` iterations, none
\* of which can stall, and returns four empty sequences when epochs = 0.
C8_ResultsShape ==
    /\ [](/\ \A nm \in ResultNames : Len(results[nm]) = Len(results.train_loss)
          /\ Len(results.train_loss) <= epochs
          /\ TrainStepCalls <= epochs
          /\ epoch <= epochs
          /\ Len(results.train_loss) \in {epoch, TrainStepCalls}
          /\ batch <= (IF nTrain < nTest THEN nTest ELSE nTrain)
          /\ InTrain => ENABLED Next
          /\ (TrainReturned /\ epochs = 0) => (results = EmptyResults /\ events = <<>>))
    /\ [][\A nm \in ResultNames :
            \/ results'[nm] = results[nm]
            \/ /\ Len(results'[nm]) = Len(results[nm]) + 1
               /\ IsPrefix(results[nm], results'[nm])]_vars
    /\ [][InTrain => pc' # pc]_vars

C8_Witness ==
    /\ pc = "returned"
    /\ epochs = 2
    /\ Len(results.train_loss) = 2
    /\ Len(results.test_acc) = 2

\* C10: train_step and test_step return the sum of the per-batch losses, and
\* of the per-batch accuracies, divided by the number of batches; with an
\* empty loader the division raises, train() returns nothing and no later
\* epoch is run.
C10_Averages ==
    /\ pc = "te_begin" =>
         /\ Len(lossLog) = nTrain
         /\ train_loss = <<SumSeq(lossLog), nTrain>>
         /\ train_acc = <<SumSeq(accLog), nTrain>>
    /\ pc = "sched" =>
         /\ Len(lossLog) = nTest
         /\ test_loss = <<SumSeq(lossLog), nTest>>
         /\ test_acc = <<SumSeq(accLog), nTest>>
    /\ (epochs > 0 /\ (nTrain = 0 \/ nTest = 0)) =>
         /\ ~TrainReturned
         /\ TrainStepCalls <= 1
         /\ EpochsRun = 0
         /\ results = EmptyResults
         /\ saves = 0
    /\ (epochs > 0 /\ nTrain = 0) => pc \notin {"te_begin", "te_loop", "te_avg"}
    /\ (pc = "ts_avg" /\ nTrain = 0) => ENABLED (TrainAverage /\ pc' = "crashed")
    /\ (pc = "te_avg" /\ nTest = 0) => ENABLED (TestAverage /\ pc' = "crashed")

C10_Witness ==
    /\ pc = "crashed"
    /\ nTrain = 2
    /\ nTest = 0
    /\ train_loss = <<14, 2>>
    /\ events = << <<"train_step", 0>>, <<"test_step", 0>> >>

\* ================================================ properties, SegRNN.py

FwdEnded == fwd.fpc \in {"done", "error"}

ShapeAsSpecified == fwd.y.shape = <<fwd.cfg.batch, fwd.cfg.pred_len, fwd.cfg.enc_in>>

\* C5, as stated: for every configuration of positive integers forward
\* returns an output of shape [batch, pred_len, enc_in].
C5_ShapeForEveryConfig ==
    FwdEnded => (fwd.fpc = "done" /\ ShapeAsSpecified)

\* seg_len divides seq_len and pred_len, and d_model is even.
Divisible ==
    /\ fwd.cfg.seq_len % fwd.cfg.seg_len = 0
    /\ fwd.cfg.pred_len % fwd.cfg.seg_len = 0
    /\ fwd.cfg.d_model % 2 = 0

\* C5, amended: for every configuration in which seg_len divides seq_len and
\* pred_len and d_model is even, no step of forward raises, and the output it
\* returns has shape [batch, pred_len, enc_in].
C5_ShapeWhenDivisible ==
    Divisible =>
        /\ fwd.fpc \in {"normalize", "embed", "encode", "pos_emb", "decode",
                        "predict", "denorm", "done"}
        /\ fwd.fpc = "done" => ShapeAsSpecified

C5_Witness ==
    /\ fwd.fpc = "done"
    /\ fwd.cfg = [batch |-> 2, enc_in |-> 2, seq_len |-> 4, pred_len |-> 4,
                  seg_len |-> 2, d_model |-> 2]
    /\ fwd.y.shape = <<2, 4, 2>>

\* What the claim expects, written from the input and the parameters alone.
XAt(b, t, c) == <<"x", b, t, c>>

ExpSegment(b, c, n) ==
    [i \in 1..fwd.cfg.seg_len |->
       <<"sub", XAt(b, n * fwd.cfg.seg_len + (i - 1), c), XAt(b, fwd.cfg.seq_len - 1, c)>>]

\* The embedded segments of the series of batch item b and channel c.
ExpSeries(b, c) ==
    [n \in 1..(fwd.cfg.seq_len \div fwd.cfg.seg_len) |->
       [k \in 1..fwd.cfg.d_model |-> <<"embed", k - 1, ExpSegment(b, c, n - 1)>>]]

\* The encoder's final hidden state of the pair (b, c).
ExpHidden(b, c) ==
    [k \in 1..fwd.cfg.d_model |-> <<"gru", k - 1, ExpSeries(b, c), <<>> >>]

\* pos_emb[j] followed by channel_emb[c]
ExpDecoderRow(j, c) ==
    [k \in 1..(fwd.cfg.d_model \div 2) |-> <<"pos_emb", j, k - 1>>] \o
    [k \in 1..(fwd.cfg.d_model \div 2) |-> <<"channel_emb", c, k - 1>>]

ExpDecoded(b, c, j) ==
    [k \in 1..fwd.cfg.d_model |->
       <<"gru", k - 1, <<ExpDecoderRow(j, c)>>, ExpHidden(b, c)>>]

ExpOutput(b, c, j, i) ==
    <<"add", <<"predict", i, ExpDecoded(b, c, j)>>, XAt(b, fwd.cfg.seq_len - 1, c)>>

\* C9: in the decoding step, row (b*enc_in + c)*seg_num_y + j of the decoder
\* input is pos_emb[j] followed by channel_emb[c], its initial hidden state
\* is the encoder's final hidden state of the pair (b, c), and its seg_len
\* predictions are the output's time positions j*seg_len .. (j+1)*seg_len - 1
\* of channel c of batch item b.
C9_DecoderRows ==
    LET c == fwd.cfg
        m == c.pred_len \div c.seg_len
    IN /\ fwd.fpc \in {"predict", "denorm", "done"} =>
            \A b \in 0..(c.batch - 1), ch \in 0..(c.enc_in - 1), j \in 0..(m - 1) :
               LET r == (b * c.enc_in + ch) * m + j
               IN /\ Row(fwd.pos_emb, r, 0) = ExpDecoderRow(j, ch)
                  /\ Row(fwd.h0, 0, r) = ExpHidden(b, ch)
                  /\ Row(fwd.hn, 0, b * c.enc_in + ch) = ExpHidden(b, ch)
                  /\ Row(fwd.hy, 0, r) = ExpDecoded(b, ch, j)
       /\ fwd.fpc = "done" =>
            \A b \in 0..(c.batch - 1), ch \in 0..(c.enc_in - 1), j \in 0..(m - 1),
               i \in 0..(c.seg_len - 1) :
               At3(fwd.y, b, j * c.seg_len + i, ch) = ExpOutput(b, ch, j, i)

C9_Witness ==
    /\ fwd.fpc = "done"
    /\ fwd.cfg = [batch |-> 2, enc_in |-> 2, seq_len |-> 4, pred_len |-> 4,
                  seg_len |-> 2, d_model |-> 2]
    /\ At3(fwd.y, 1, 3, 1) = ExpOutput(1, 1, 1, 1)

====
